---- MODULE Spec2Model ----
(***************************************************************************)
(* The runner service of trento-runner (package runner): Start,            *)
(* BuildCatalog, IsCatalogReady, createAnsibleFiles and the periodic       *)
(* pipeline of startCheckRunnerTicker, as a state machine.                 *)
(*                                                                         *)
(* Threads of control: the caller of Start ("start"), the goroutine that   *)
(* Start spawns (loopPc), and the external callers of BuildCatalog.        *)
(* The environment signals cancellation of the context given to Start.     *)
(***************************************************************************)
EXTENDS Naturals, Sequences, FiniteSets

\* ---------------------------------------------------------------- bounds
\* How many BuildCatalog calls the external callers make in one run.
MaxBuilds == 2

\* ------------------------------------------------------ program constants
\* retryGo.Attempts(8)
Attempts == 8

AnsibleDir == "ansible"
AnsibleMain == "ansible/check.yml"
AnsibleMeta == "ansible/meta.yml"
AnsibleConfigFile == "ansible/ansible.cfg"
AnsibleHostFile == "ansible/ansible_hosts"
CatalogDestinationFile == "ansible/catalog.json"

\* The embedded template ansibleFS in the order fs.WalkDir visits it
\* (the root directory first, then its entries in lexical order).
ansibleFS == <<AnsibleDir, AnsibleConfigFile, AnsibleMain, AnsibleMeta>>

Paths ==
    {AnsibleDir, AnsibleConfigFile, AnsibleMain, AnsibleMeta,
     AnsibleHostFile, CatalogDestinationFile}

\* The threads that run createAnsibleFiles: Start's caller and the callers
\* of BuildCatalog.
Callers == {"b1", "b2"}
Threads == {"start"} \cup Callers

\* The topologies the API can return; Render is the inventory content
\* written for one.
Topologies == {"t1", "t2"}

VARIABLES
    ready,          \* runnerService.ready
    trentoApi,      \* runnerService.trentoApi: "nil" or "client"
    cancelled,      \* ctx of Start is done
    ws,             \* the workspace folder: path -> content ("none": absent)
    pc,             \* position of Start's caller and of each BuildCatalog caller
    startRes,       \* what Start returned ("none": it has not returned)
    buildRes,       \* what the BuildCatalog call that returned last returned
    widx,           \* position of a thread's fs.WalkDir in ansibleFS
    n,              \* retry-go's attempt counter of the call in Start
    wg,             \* the sync.WaitGroup counter of Start
    loopPc,         \* position of the goroutine Start spawns
    content,        \* the tick closure's inventory content (a topology)
    checkInv,       \* checkRunner has an inventory bound
    tickLog,        \* the stages the current (or last) tick invoked, with outcome
    builds,         \* BuildCatalog calls made so far
    shortWrites,    \* the disk can cut a file write short (fixed for a run)
    probed,         \* history: an attempt of the liveness probe was started
    probeOK,        \* history: an attempt of the liveness probe succeeded
    cancelAt,       \* history: where Start was when cancellation was signalled
    lateProbes      \* history: probe attempts started after cancellation

vars ==
    <<ready, trentoApi, cancelled, ws, pc, startRes, buildRes, widx, n, wg,
      loopPc, content, checkInv, tickLog, builds, shortWrites, probed,
      probeOK, cancelAt, lateProbes>>

startVars == <<n, probed, probeOK, lateProbes, trentoApi>>
loopVars == <<wg, loopPc, content, checkInv, tickLog>>
histCancel == <<cancelled, cancelAt, shortWrites>>

\* ------------------------------------------------------------------ Init
EmptyWorkspace == [p \in Paths |-> "none"]

\* What an earlier run of the service leaves behind in the folder.
StaleWorkspace ==
    [p \in Paths |-> IF p = AnsibleDir THEN "dir" ELSE "stale"]

\* NewRunnerService: ready is false, no API client is stored; no method of
\* the service has been called.
NewRunnerService ==
    /\ ready = FALSE
    /\ trentoApi = "nil"
    /\ cancelled = FALSE
    /\ pc = [t \in Threads |-> "idle"]
    /\ startRes = "none"
    /\ buildRes = "none"
    /\ widx = [t \in Threads |-> 1]
    /\ n = 0
    /\ wg = 0
    /\ loopPc = "none"
    /\ content = "none"
    /\ checkInv = FALSE
    /\ tickLog = <<>>
    /\ builds = 0
    /\ probed = FALSE
    /\ probeOK = FALSE
    /\ cancelAt = "none"
    /\ lateProbes = 0

\* The new service over a folder that holds nothing or the leftovers of an
\* earlier run.
InitService ==
    /\ NewRunnerService
    /\ ws \in {EmptyWorkspace, StaleWorkspace}

\* The service on a disk whose writes complete.
Init ==
    /\ InitService
    /\ shortWrites = FALSE

\* IsCatalogReady returns the flag.
IsCatalogReady == ready

\* ------------------------------------------------- createAnsibleFiles
\* Where a thread goes on when createAnsibleFiles returned nil.
AfterProvision(t) == IF t = "start" THEN "retry" ELSE "newMeta"

\* Mutant: Start records the error of createAnsibleFiles and goes on to the
\* liveness probe instead of returning.
Return_StartGoesOn(t, r) ==
    IF t = "start"
    THEN /\ pc' = [pc EXCEPT ![t] =
                     IF r = "err_provision" THEN "retry" ELSE "returned"]
         /\ startRes' = r
         /\ UNCHANGED buildRes
    ELSE /\ pc' = [pc EXCEPT ![t] = "idle"]
         /\ buildRes' = r
         /\ UNCHANGED startRes

\* The call thread t is in returns r: Start's caller has returned for good,
\* a caller of BuildCatalog is free to call again.
Return(t, r) ==
    IF t = "start"
    THEN /\ pc' = [pc EXCEPT ![t] = "returned"]
         /\ startRes' = r
         /\ UNCHANGED buildRes
    ELSE /\ pc' = [pc EXCEPT ![t] = "idle"]
         /\ buildRes' = r
         /\ UNCHANGED startRes

\* os.RemoveAll(ansibleFolder): the subtree is gone, or the call fails and
\* createAnsibleFiles returns the error.
createAnsibleFiles_RemoveAll(t) ==
    /\ pc[t] = "cf_rm"
    /\ \/ /\ ws' = EmptyWorkspace
          /\ pc' = [pc EXCEPT ![t] = "cf_mkdir"]
          /\ UNCHANGED <<startRes, buildRes>>
       \/ /\ Return(t, "err_provision")
          /\ UNCHANGED ws
    /\ UNCHANGED <<ready, widx, builds>>
    /\ UNCHANGED <<startVars, loopVars, histCancel>>

\* os.MkdirAll(ansibleFolder, 0755)
createAnsibleFiles_MkdirAll(t) ==
    /\ pc[t] = "cf_mkdir"
    /\ \/ /\ ws' = [ws EXCEPT ![AnsibleDir] = "dir"]
          /\ pc' = [pc EXCEPT ![t] = "cf_walk"]
          /\ widx' = [widx EXCEPT ![t] = 1]
          /\ UNCHANGED <<startRes, buildRes>>
       \/ /\ Return(t, "err_provision")
          /\ UNCHANGED <<ws, widx>>
    /\ UNCHANGED <<ready, builds>>
    /\ UNCHANGED <<startVars, loopVars, histCancel>>

\* The thread's walk moves to the next entry, or createAnsibleFiles returns
\* nil after the last one.
WalkAdvance(t) ==
    IF widx[t] = Len(ansibleFS)
    THEN /\ pc' = [pc EXCEPT ![t] = AfterProvision(t)]
         /\ widx' = [widx EXCEPT ![t] = 1]
    ELSE /\ widx' = [widx EXCEPT ![t] = widx[t] + 1]
         /\ UNCHANGED pc

\* What fmt.Fprintf(f, "%s", content) leaves in the created file: the
\* template's bytes or, when the write fails, a truncated file.
WriteOutcomes == IF shortWrites THEN {"tpl", "trunc"} ELSE {"tpl"}

\* One callback of fs.WalkDir. A directory entry: os.Mkdir, its error
\* ignored. A file entry: os.Create fails (always when the folder is gone)
\* and the walk returns the error, or the file is created and written; the
\* error of the write (fmt.Fprintf) is ignored, leaving a truncated file.
createAnsibleFiles_WalkEntry(t) ==
    /\ pc[t] = "cf_walk"
    /\ LET e == ansibleFS[widx[t]] IN
       IF e = AnsibleDir
       THEN /\ \/ ws' = [ws EXCEPT ![e] = "dir"]
               \/ UNCHANGED ws
            /\ WalkAdvance(t)
            /\ UNCHANGED <<startRes, buildRes>>
       ELSE \/ /\ ws[AnsibleDir] = "dir"
               /\ \E c \in WriteOutcomes : ws' = [ws EXCEPT ![e] = c]
               /\ WalkAdvance(t)
               /\ UNCHANGED <<startRes, buildRes>>
            \/ /\ Return(t, "err_provision")
               /\ UNCHANGED <<ws, widx>>
    /\ UNCHANGED <<ready, builds>>
    /\ UNCHANGED <<startVars, loopVars, histCancel>>

createAnsibleFiles(t) ==
    \/ createAnsibleFiles_RemoveAll(t)
    \/ createAnsibleFiles_MkdirAll(t)
    \/ createAnsibleFiles_WalkEntry(t)

\* ------------------------------------------------------------- Start
\* Start is called: createAnsibleFiles(c.config.AnsibleFolder) begins.
Start_Call ==
    /\ pc["start"] = "idle"
    /\ pc' = [pc EXCEPT !["start"] = "cf_rm"]
    /\ UNCHANGED <<ready, ws, startRes, buildRes, widx, builds>>
    /\ UNCHANGED <<startVars, loopVars, histCancel>>

\* Attempt number k+1 of the probe starts (the retried closure is called).
StartAttempt(k) ==
    /\ pc' = [pc EXCEPT !["start"] = "probe"]
    /\ n' = k
    /\ probed' = TRUE
    /\ lateProbes' = IF cancelled THEN lateProbes + 1 ELSE lateProbes
    /\ UNCHANGED <<startRes, buildRes>>

\* retryGo.Do is entered: a context that is already done ends it with the
\* context's error, otherwise the first attempt (n = 0) starts.
retryGo_Do_Enter ==
    /\ pc["start"] = "retry"
    /\ IF cancelled
       THEN /\ Return("start", "err_ctx")
            /\ UNCHANGED <<n, probed, lateProbes>>
       ELSE StartAttempt(0)
    /\ UNCHANGED <<ready, ws, widx, builds, probeOK, trentoApi>>
    /\ UNCHANGED <<loopVars, histCancel>>

\* Mutant: the attempt budget is one short (n = Attempts-2 is the last).
Start_Probe_OneShort ==
    /\ pc["start"] = "probe"
    /\ \E up \in BOOLEAN :
         IF up
         THEN /\ pc' = [pc EXCEPT !["start"] = "spawn"]
              /\ probeOK' = TRUE
              /\ UNCHANGED <<startRes, buildRes>>
         ELSE /\ IF n >= Attempts - 2
                 THEN Return("start", "err_api")
                 ELSE /\ pc' = [pc EXCEPT !["start"] = "backoff"]
                      /\ UNCHANGED <<startRes, buildRes>>
              /\ UNCHANGED probeOK
    /\ UNCHANGED <<ready, ws, widx, builds, n, probed, lateProbes, trentoApi>>
    /\ UNCHANGED <<loopVars, histCancel>>

\* Mutant: Do returns the errors of the earlier attempts although the last
\* attempt succeeded.
Start_Probe_SurfacesEarlier ==
    /\ pc["start"] = "probe"
    /\ \E up \in BOOLEAN :
         IF up
         THEN /\ probeOK' = TRUE
              /\ IF n > 0
                 THEN Return("start", "err_api")
                 ELSE /\ pc' = [pc EXCEPT !["start"] = "spawn"]
                      /\ UNCHANGED <<startRes, buildRes>>
         ELSE /\ IF n = Attempts - 1
                 THEN Return("start", "err_api")
                 ELSE /\ pc' = [pc EXCEPT !["start"] = "backoff"]
                      /\ UNCHANGED <<startRes, buildRes>>
              /\ UNCHANGED probeOK
    /\ UNCHANGED <<ready, ws, widx, builds, n, probed, lateProbes, trentoApi>>
    /\ UNCHANGED <<loopVars, histCancel>>

\* The attempt in flight (the n+1st) ends. IsWebServerUp() is true: Do
\* returns nil and Start goes on to spawn. It is false: the last attempt
\* (n = Attempts-1) ends Do with this error (LastErrorOnly), any other goes
\* to the backoff wait.
Start_Probe ==
    /\ pc["start"] = "probe"
    /\ \E up \in BOOLEAN :
         IF up
         THEN /\ pc' = [pc EXCEPT !["start"] = "spawn"]
              /\ probeOK' = TRUE
              /\ UNCHANGED <<startRes, buildRes>>
         ELSE /\ IF n = Attempts - 1
                 THEN Return("start", "err_api")
                 ELSE /\ pc' = [pc EXCEPT !["start"] = "backoff"]
                      /\ UNCHANGED <<startRes, buildRes>>
              /\ UNCHANGED probeOK
    /\ UNCHANGED <<ready, ws, widx, builds, n, probed, lateProbes, trentoApi>>
    /\ UNCHANGED <<loopVars, histCancel>>

\* Mutant: Do is not given the context (no retryGo.Context(ctx)): the wait
\* always runs to its end and the next attempt starts.
retryGo_Do_Backoff_NoContext ==
    /\ pc["start"] = "backoff"
    /\ StartAttempt(n + 1)
    /\ UNCHANGED <<ready, ws, widx, builds, probeOK, trentoApi>>
    /\ UNCHANGED <<loopVars, histCancel>>

\* Mutant: after a failed attempt Start begins again from the top: it
\* provisions the workspace anew before the next attempt.
retryGo_Do_Backoff_Reprovisions ==
    /\ pc["start"] = "backoff"
    /\ IF cancelled
       THEN Return("start", "err_ctx")
       ELSE /\ pc' = [pc EXCEPT !["start"] = "cf_rm"]
            /\ UNCHANGED <<startRes, buildRes>>
    /\ UNCHANGED <<n, probed, lateProbes>>
    /\ UNCHANGED <<ready, ws, widx, builds, probeOK, trentoApi>>
    /\ UNCHANGED <<loopVars, histCancel>>

\* The select of the backoff wait: the context is done and Do returns its
\* error, or the delay (2s plus jitter) elapses, n++, and the next attempt
\* starts.
retryGo_Do_Backoff ==
    /\ pc["start"] = "backoff"
    /\ IF cancelled
       THEN /\ Return("start", "err_ctx")
            /\ UNCHANGED <<n, probed, lateProbes>>
       ELSE StartAttempt(n + 1)
    /\ UNCHANGED <<ready, ws, widx, builds, probeOK, trentoApi>>
    /\ UNCHANGED <<loopVars, histCancel>>

\* c.trentoApi = trentoApi; wg.Add(1); go func() {...}. The counter of the
\* finished retryGo.Do is gone.
Start_Spawn ==
    /\ pc["start"] = "spawn"
    /\ trentoApi' = "client"
    /\ n' = 0
    /\ wg' = wg + 1
    /\ loopPc' = "newCheck"
    /\ pc' = [pc EXCEPT !["start"] = "wait"]
    /\ UNCHANGED <<ready, ws, startRes, buildRes, widx, builds, probed, probeOK>>
    /\ UNCHANGED lateProbes
    /\ UNCHANGED <<content, checkInv, tickLog, histCancel>>

\* wg.Wait() returns once the counter is zero; Start returns nil.
Start_Wait ==
    /\ pc["start"] = "wait"
    /\ wg = 0
    /\ Return("start", "nil")
    /\ UNCHANGED <<ready, ws, widx, builds>>
    /\ UNCHANGED <<startVars, loopVars, histCancel>>

Start ==
    \/ Start_Call
    \/ createAnsibleFiles("start")
    \/ retryGo_Do_Enter
    \/ Start_Probe
    \/ retryGo_Do_Backoff
    \/ Start_Spawn
    \/ Start_Wait

\* ------------------------------------------------ the ansible runners
\* AnsibleRunner.SetPlaybook(path): the path must exist in the workspace.
SetPlaybook(p) == ws[p] # "none"

\* AnsibleRunner.SetInventory(path): the path must exist in the workspace.
SetInventory(p) == ws[p] # "none"

\* NewAnsibleMetaRunner / NewAnsibleCheckRunner return an error exactly
\* when SetPlaybook does.
NewAnsibleMetaRunner == SetPlaybook(AnsibleMeta)
NewAnsibleCheckRunner == SetPlaybook(AnsibleMain)

\* metaRunner.RunPlaybook() can succeed only when its playbook is there;
\* a successful run writes the catalog artifact.
MetaRunCanSucceed == ws[AnsibleMeta] # "none"
MetaRunWrites == [ws EXCEPT ![CatalogDestinationFile] = "catalog"]

\* checkRunner.RunPlaybook() can succeed only when its playbook is there.
CheckRunCanSucceed == ws[AnsibleMain] # "none"

\* The inventory content CreateInventory writes for a topology.
Render(t) == IF t = "t1" THEN "hosts_t1" ELSE "hosts_t2"

\* ------------------------------------------------------- BuildCatalog
\* The callers are interchangeable: a new call is made by the first caller
\* that is not inside a call.
FreeCaller == IF pc["b1"] = "idle" THEN "b1" ELSE "b2"

\* An external caller calls BuildCatalog: createAnsibleFiles begins.
BuildCatalog_Call(b) ==
    /\ pc[b] = "idle"
    /\ b = FreeCaller
    /\ builds < MaxBuilds
    /\ builds' = builds + 1
    /\ pc' = [pc EXCEPT ![b] = "cf_rm"]
    /\ UNCHANGED <<ready, ws, startRes, buildRes, widx>>
    /\ UNCHANGED <<startVars, loopVars, histCancel>>

\* Mutant: BuildCatalog clears the flag when it cannot build its runner.
BuildCatalog_NewMetaRunner_Clears(b) ==
    /\ pc[b] = "newMeta"
    /\ IF NewAnsibleMetaRunner
       THEN /\ pc' = [pc EXCEPT ![b] = "run"]
            /\ UNCHANGED <<ready, startRes, buildRes>>
       ELSE /\ Return(b, "err_runner")
            /\ ready' = FALSE
    /\ UNCHANGED <<ws, widx, builds>>
    /\ UNCHANGED <<startVars, loopVars, histCancel>>

\* metaRunner, err := NewAnsibleMetaRunner(c.config)
BuildCatalog_NewMetaRunner(b) ==
    /\ pc[b] = "newMeta"
    /\ IF NewAnsibleMetaRunner
       THEN /\ pc' = [pc EXCEPT ![b] = "run"]
            /\ UNCHANGED <<startRes, buildRes>>
       ELSE Return(b, "err_runner")
    /\ UNCHANGED <<ready, ws, widx, builds>>
    /\ UNCHANGED <<startVars, loopVars, histCancel>>

\* Mutant: a failed meta playbook run marks the catalog as not ready.
BuildCatalog_RunFails_Revokes(b) ==
    /\ pc[b] = "run"
    /\ ready' = FALSE
    /\ Return(b, "err_meta")
    /\ UNCHANGED <<ws, widx, builds>>
    /\ UNCHANGED <<startVars, loopVars, histCancel>>

\* Mutant: BuildCatalog answers a failed meta playbook run by building the
\* runner and running the playbook again.
BuildCatalog_RunFails_Retries(b) ==
    /\ pc[b] = "run"
    /\ pc' = [pc EXCEPT ![b] = "newMeta"]
    /\ UNCHANGED <<ready, ws, startRes, buildRes, widx, builds>>
    /\ UNCHANGED <<startVars, loopVars, histCancel>>

\* metaRunner.RunPlaybook() fails: the error is returned.
BuildCatalog_RunFails(b) ==
    /\ pc[b] = "run"
    /\ Return(b, "err_meta")
    /\ UNCHANGED <<ready, ws, widx, builds>>
    /\ UNCHANGED <<startVars, loopVars, histCancel>>

\* Mutant: the catalog counts as built only while the service is Running
\* (Start blocked in wg.Wait()).
BuildCatalog_RunSucceeds_WhenRunning(b) ==
    /\ pc[b] = "run"
    /\ pc["start"] = "wait"
    /\ MetaRunCanSucceed
    /\ ws' = MetaRunWrites
    /\ ready' = TRUE
    /\ Return(b, "nil")
    /\ UNCHANGED <<widx, builds>>
    /\ UNCHANGED <<startVars, loopVars, histCancel>>

\* metaRunner.RunPlaybook() succeeds: c.ready = true; return nil.
BuildCatalog_RunSucceeds(b) ==
    /\ pc[b] = "run"
    /\ MetaRunCanSucceed
    /\ ws' = MetaRunWrites
    /\ ready' = TRUE
    /\ Return(b, "nil")
    /\ UNCHANGED <<widx, builds>>
    /\ UNCHANGED <<startVars, loopVars, histCancel>>

BuildCatalog(b) ==
    \/ BuildCatalog_Call(b)
    \/ createAnsibleFiles(b)
    \/ BuildCatalog_NewMetaRunner(b)
    \/ BuildCatalog_RunFails(b)
    \/ BuildCatalog_RunSucceeds(b)

\* ---------------------------------------------- startCheckRunnerTicker
goVars ==
    <<ready, ws, pc, startRes, buildRes, widx, builds, startVars, histCancel>>

\* Mutant: the goroutine ends without wg.Done().
Start_Goroutine_NoDone ==
    /\ UNCHANGED wg
    /\ loopPc' = "exited"

\* startCheckRunnerTicker returns, the goroutine of Start ends and its
\* deferred wg.Done() runs.
Start_Goroutine_Done ==
    /\ wg' = wg - 1
    /\ loopPc' = "exited"

\* checkRunner, err := NewAnsibleCheckRunner(c.config); an error returns
\* from startCheckRunnerTicker.
startCheckRunnerTicker_NewCheckRunner ==
    /\ loopPc = "newCheck"
    /\ IF NewAnsibleCheckRunner
       THEN loopPc' = "newMeta" /\ UNCHANGED wg
       ELSE Start_Goroutine_Done
    /\ UNCHANGED <<content, checkInv, tickLog>>
    /\ UNCHANGED goVars

\* metaRunner, err := NewAnsibleMetaRunner(c.config); an error returns from
\* startCheckRunnerTicker.
startCheckRunnerTicker_NewMetaRunner ==
    /\ loopPc = "newMeta"
    /\ IF NewAnsibleMetaRunner
       THEN loopPc' = "repeat" /\ UNCHANGED wg
       ELSE Start_Goroutine_Done
    /\ UNCHANGED <<content, checkInv, tickLog>>
    /\ UNCHANGED goVars

\* internal.Repeat: the interval elapses while the context is not done, and
\* the tick callback is invoked on the scheduler's own thread.
Repeat_Tick ==
    /\ loopPc = "repeat"
    /\ ~cancelled
    /\ tickLog' = <<>>
    /\ loopPc' = "meta"
    /\ UNCHANGED <<wg, content, checkInv>>
    /\ UNCHANGED goVars

\* internal.Repeat observes that the context is done and returns, and so
\* does startCheckRunnerTicker.
Repeat_Done ==
    /\ loopPc = "repeat"
    /\ cancelled
    /\ Start_Goroutine_Done
    /\ UNCHANGED <<content, checkInv, tickLog>>
    /\ UNCHANGED goVars

\* ----------------------------------------------------------- the tick
Logged(stage, ok) == Append(tickLog, <<stage, ok>>)

\* The tick closure returns to internal.Repeat; its local content is gone.
tick_Return ==
    /\ loopPc' = "repeat"
    /\ content' = "none"

\* Mutant: the tick logs the failed meta run and goes on to the fetch.
tick_MetaFails_GoesOn ==
    /\ loopPc = "meta"
    /\ tickLog' = Logged("meta", FALSE)
    /\ loopPc' = "fetch"
    /\ UNCHANGED <<wg, content, checkInv>>
    /\ UNCHANGED goVars

\* metaRunner.RunPlaybook() fails: the tick returns.
tick_MetaFails ==
    /\ loopPc = "meta"
    /\ tickLog' = Logged("meta", FALSE)
    /\ tick_Return
    /\ UNCHANGED <<wg, checkInv>>
    /\ UNCHANGED goVars

\* Mutant: a tick whose meta run succeeds marks the catalog as ready.
tick_MetaSucceeds_SetsReady ==
    /\ loopPc = "meta"
    /\ MetaRunCanSucceed
    /\ ws' = MetaRunWrites
    /\ ready' = TRUE
    /\ tickLog' = Logged("meta", TRUE)
    /\ loopPc' = "fetch"
    /\ UNCHANGED <<wg, content, checkInv>>
    /\ UNCHANGED <<pc, startRes, buildRes, widx, builds>>
    /\ UNCHANGED <<startVars, histCancel>>

\* metaRunner.RunPlaybook() succeeds and has written the catalog.
tick_MetaSucceeds ==
    /\ loopPc = "meta"
    /\ MetaRunCanSucceed
    /\ ws' = MetaRunWrites
    /\ tickLog' = Logged("meta", TRUE)
    /\ loopPc' = "fetch"
    /\ UNCHANGED <<wg, content, checkInv>>
    /\ UNCHANGED <<ready, pc, startRes, buildRes, widx, builds>>
    /\ UNCHANGED <<startVars, histCancel>>

\* content, err := NewClusterInventoryContent(c.trentoApi): the topology
\* the API answers with, or an error that ends the tick.
tick_NewClusterInventoryContent ==
    /\ loopPc = "fetch"
    /\ \/ \E t \in Topologies :
            /\ content' = t
            /\ tickLog' = Logged("fetch", TRUE)
            /\ loopPc' = "write"
       \/ /\ tickLog' = Logged("fetch", FALSE)
          /\ tick_Return
    /\ UNCHANGED <<wg, checkInv>>
    /\ UNCHANGED goVars

\* CreateInventory(inventoryFile, content): the file is overwritten with
\* the rendering (the folder must be there), or an error ends the tick.
tick_CreateInventory ==
    /\ loopPc = "write"
    /\ \/ /\ ws[AnsibleDir] = "dir"
          /\ ws' = [ws EXCEPT ![AnsibleHostFile] = Render(content)]
          /\ tickLog' = Logged("write", TRUE)
          /\ loopPc' = "bind"
          /\ UNCHANGED content
       \/ /\ tickLog' = Logged("write", FALSE)
          /\ tick_Return
          /\ UNCHANGED ws
    /\ UNCHANGED <<wg, checkInv>>
    /\ UNCHANGED <<ready, pc, startRes, buildRes, widx, builds>>
    /\ UNCHANGED <<startVars, histCancel>>

\* Mutant: a failed bind is logged and the check run follows all the same.
tick_SetInventory_GoesOn ==
    /\ loopPc = "bind"
    /\ IF SetInventory(AnsibleHostFile)
       THEN /\ checkInv' = TRUE
            /\ tickLog' = Logged("bind", TRUE)
       ELSE /\ tickLog' = Logged("bind", FALSE)
            /\ UNCHANGED checkInv
    /\ loopPc' = "check"
    /\ UNCHANGED <<wg, content>>
    /\ UNCHANGED goVars

\* checkRunner.SetInventory(inventoryFile); an error ends the tick.
tick_SetInventory ==
    /\ loopPc = "bind"
    /\ IF SetInventory(AnsibleHostFile)
       THEN /\ checkInv' = TRUE
            /\ tickLog' = Logged("bind", TRUE)
            /\ loopPc' = "check"
            /\ UNCHANGED content
       ELSE /\ tickLog' = Logged("bind", FALSE)
            /\ tick_Return
            /\ UNCHANGED checkInv
    /\ UNCHANGED wg
    /\ UNCHANGED goVars

\* Mutant: a failed check run is fatal to the loop: the goroutine ends.
tick_RunCheck_Fatal ==
    /\ loopPc = "check"
    /\ \E ok \in BOOLEAN :
         /\ ok => CheckRunCanSucceed
         /\ tickLog' = Logged("check", ok)
         /\ IF ok
            THEN tick_Return /\ UNCHANGED wg
            ELSE Start_Goroutine_Done /\ UNCHANGED content
    /\ UNCHANGED checkInv
    /\ UNCHANGED goVars

\* checkRunner.RunPlaybook(): its result is dropped and the tick ends.
tick_RunCheck ==
    /\ loopPc = "check"
    /\ \E ok \in BOOLEAN :
         /\ ok => CheckRunCanSucceed
         /\ tickLog' = Logged("check", ok)
    /\ tick_Return
    /\ UNCHANGED <<wg, checkInv>>
    /\ UNCHANGED goVars

tick ==
    \/ tick_MetaFails
    \/ tick_MetaSucceeds
    \/ tick_NewClusterInventoryContent
    \/ tick_CreateInventory
    \/ tick_SetInventory
    \/ tick_RunCheck

\* Mutant: the scheduler is given a callback that it fires at every interval
\* without waiting for the tick in progress: a new tick starts inside one.
startCheckRunnerTicker_Overlapping ==
    \/ startCheckRunnerTicker_NewCheckRunner
    \/ startCheckRunnerTicker_NewMetaRunner
    \/ Repeat_Tick
    \/ tick
    \/ Repeat_Done
    \/ /\ loopPc \in {"meta", "fetch", "write", "bind", "check"}
       /\ ~cancelled
       /\ tickLog' = <<>>
       /\ loopPc' = "meta"
       /\ content' = "none"
       /\ UNCHANGED <<wg, checkInv>>
       /\ UNCHANGED goVars

startCheckRunnerTicker ==
    \/ startCheckRunnerTicker_NewCheckRunner
    \/ startCheckRunnerTicker_NewMetaRunner
    \/ Repeat_Tick
    \/ tick
    \/ Repeat_Done

\* ----------------------------------------------------- the environment
\* The owner of the context cancels it.
Cancel ==
    /\ ~cancelled
    /\ cancelled' = TRUE
    /\ cancelAt' = IF pc["start"] \in {"probe", "backoff", "wait"}
                   THEN pc["start"]
                   ELSE "other"
    /\ UNCHANGED <<ready, ws, pc, startRes, buildRes, widx, builds>>
    /\ UNCHANGED <<startVars, loopVars, shortWrites>>

\* ------------------------------------------------------ specification
Next ==
    \/ Start
    \/ startCheckRunnerTicker
    \/ \E b \in Callers : BuildCatalog(b)
    \/ Cancel

Spec == Init /\ [][Next]_vars

\* The Go scheduler runs every runnable goroutine, and the calls Start and
\* the pipeline make return: the steps of Start's caller and of the spawned
\* goroutine are taken when they stay possible.
FairSpec ==
    /\ Spec
    /\ WF_vars(Start)
    /\ WF_vars(startCheckRunnerTicker)

\* ------------------------------------------- the provisioner on its own
\* The tree of the embedded template: the folder and its three files with
\* the template's bytes, no inventory and no catalog.
TemplateTree ==
    [p \in Paths |->
       IF p = AnsibleDir THEN "dir"
       ELSE IF p \in {AnsibleConfigFile, AnsibleMain, AnsibleMeta} THEN "tpl"
       ELSE "none"]

\* What createAnsibleFiles can find in the folder: nothing, or the directory
\* with any of the five files left by an earlier run.
PriorWorkspaces ==
    {EmptyWorkspace} \cup
    {w \in [Paths -> {"none", "dir", "stale"}] :
       /\ w[AnsibleDir] = "dir"
       /\ \A p \in Paths \ {AnsibleDir} : w[p] \in {"none", "stale"}}

\* The service before Start, over any prior folder, on a disk whose writes
\* complete or on one that can cut them short.
ProvisionerInit ==
    /\ NewRunnerService
    /\ ws \in PriorWorkspaces
    /\ shortWrites \in BOOLEAN

\* One external caller makes its BuildCatalog calls one after the other;
\* Start is not called, no tick runs.
ProvisionerNext == BuildCatalog("b1")

ProvisionerSpec == ProvisionerInit /\ [][ProvisionerNext]_vars

\* ================================================================ claims
\* C1: readiness is monotonic. No step of any operation (a BuildCatalog
\* call that succeeds or fails, a tick, a step of Start, cancellation) takes
\* the flag IsCatalogReady returns from true back to false.
C1_ReadinessMonotonic == [][IsCatalogReady => IsCatalogReady']_vars

\* A BuildCatalog call failed at its meta playbook run after an earlier call
\* had succeeded, and the service is still ready.
C1_Witness == IsCatalogReady /\ buildRes = "err_meta"

\* A step of caller b inside BuildCatalog, or the call itself.
BuildStep(b) == pc'[b] # pc[b] \/ widx'[b] # widx[b]

\* The step with which a BuildCatalog call of b returns nil.
BuildSucceeds(b) == pc[b] = "run" /\ pc'[b] = "idle" /\ buildRes' = "nil"

\* C2: a BuildCatalog call that fails (at createAnsibleFiles, at
\* NewAnsibleMetaRunner or at RunPlaybook) does not write the flag: every
\* step of a call other than the one that returns nil leaves ready as it is,
\* and the step that returns an error is one of them.
C2_FailedBuildKeepsReadiness ==
    [][\A b \in Callers :
         /\ (BuildStep(b) /\ ~BuildSucceeds(b)) => ready' = ready
         /\ (pc[b] # "idle" /\ pc'[b] = "idle" /\ ready' # ready)
              => buildRes' = "nil"]_vars

\* A call failed at the construction of the meta runner while the service
\* was ready, and it still is.
C2_Witness == ready /\ buildRes = "err_runner" /\ pc["b1"] = "idle"

\* The service never entered Running: no goroutine was spawned, no API
\* client stored, and no tick ran.
NeverRunning ==
    /\ loopPc = "none"
    /\ wg = 0
    /\ trentoApi = "nil"
    /\ tickLog = <<>>

StartReturned == pc["start"] = "returned"

\* C3: when every probe attempt fails and the context is not cancelled,
\* Start returns only after the attempt with n = Attempts-1 (the 8th), with
\* the probe's error, and the service never entered Running.
C3_ExhaustedBudgetIsFatal ==
    /\ (startRes = "err_api")
         => (StartReturned /\ n = Attempts - 1 /\ ~probeOK /\ NeverRunning)
    /\ (StartReturned /\ probed /\ ~probeOK /\ ~cancelled)
         => (startRes = "err_api" /\ n = Attempts - 1 /\ NeverRunning)
    /\ (pc["start"] \in {"probe", "backoff"}) => (n < Attempts /\ NeverRunning)

\* Start returned the probe's error after the eighth attempt, uncancelled.
C3_Witness ==
    StartReturned /\ startRes = "err_api" /\ n = Attempts - 1 /\ ~cancelled

\* C4: once an attempt of the probe has succeeded, Start is past the retry
\* loop for good (it probes no more), it never returns an error, and from
\* there it spawns the pipeline: whatever the number of failed attempts
\* before.
C4_ProbeSuccessProceeds ==
    probeOK =>
      /\ pc["start"] \in {"spawn", "wait", "returned"}
      /\ startRes \in {"none", "nil"}
      /\ pc["start"] = "spawn" => (ENABLED Start_Spawn /\ n < Attempts)
      /\ pc["start"] \in {"wait", "returned"}
           => (loopPc # "none" /\ trentoApi = "client")

\* The probe succeeded on the last attempt, after Attempts-1 failures, and
\* Start moved on to spawn the pipeline.
C4_Witness == probeOK /\ pc["start"] = "spawn" /\ n = Attempts - 1

\* C5: when createAnsibleFiles fails in Start, Start returns that error
\* without having started a probe attempt, and the service never entered
\* Running.
C5_ProvisionFailureIsFatal ==
    /\ (startRes = "err_provision")
         => (StartReturned /\ ~probed /\ ~probeOK /\ NeverRunning)
    /\ (pc["start"] \in {"cf_rm", "cf_mkdir", "cf_walk"})
         => (~probed /\ NeverRunning)

\* Start returned the error of createAnsibleFiles.
C5_Witness == StartReturned /\ startRes = "err_provision"

\* C6: in a tick whose meta playbook run fails nothing else is invoked: the
\* tick's log holds the failed meta run alone (no fetch, no inventory write,
\* no bind, no check run), and the tick is over.
C6_MetaFailureEndsTick ==
    (Len(tickLog) >= 1 /\ tickLog[1] = <<"meta", FALSE>>)
      => (Len(tickLog) = 1 /\ loopPc \in {"repeat", "exited"})

\* A tick ended at its failed meta run.
C6_Witness == tickLog = <<(<<"meta", FALSE>>)>> /\ loopPc = "repeat"

\* The step in which a stage of the running tick fails.
TickStageFailed ==
    /\ Len(tickLog') = Len(tickLog) + 1
    /\ tickLog'[Len(tickLog')][2] = FALSE

\* C7: a tick in which a stage fails (the check run included) returns to
\* the scheduler: the goroutine goes on, Start stays where it is, the flag
\* is not written. While the context is not cancelled the scheduler can
\* start the next tick, and what it starts is the meta stage of a new tick.
C7_FailedTickKeepsLoop ==
    /\ [][TickStageFailed =>
            /\ loopPc' = "repeat"
            /\ wg' = wg
            /\ pc' = pc
            /\ startRes' = startRes
            /\ ready' = ready]_vars
    /\ []((loopPc = "repeat" /\ ~cancelled) => ENABLED Repeat_Tick)
    /\ [][(loopPc = "repeat" /\ loopPc' # "repeat" /\ ~cancelled)
            => (loopPc' = "meta" /\ tickLog' = <<>>)]_vars

\* A tick got as far as its check run, which failed; the scheduler waits
\* for the next interval and Start is still blocked in wg.Wait().
C7_Witness ==
    /\ loopPc = "repeat"
    /\ Len(tickLog) = 5
    /\ tickLog[5] = <<"check", FALSE>>
    /\ pc["start"] = "wait"
    /\ wg = 1
    /\ ~cancelled

\* C8 as stated: once the context is cancelled while Start is in the retry
\* loop (an attempt in flight or the backoff wait), no further attempt is
\* started, Start returns an error, and the service never enters Running.
C8_CancelInRetryLoopNeverRuns ==
    (cancelAt \in {"probe", "backoff"}) =>
      /\ pc["start"] \in {"probe", "backoff", "returned"}
      /\ lateProbes = 0
      /\ NeverRunning
      /\ StartReturned => startRes \in {"err_ctx", "err_api"}

\* C8 amended: cancellation during the backoff wait, or during an attempt
\* that then fails, ends Start with an error, with no further attempt and
\* without entering Running. (An attempt in flight is not interrupted: when
\* it succeeds, Start goes on to spawn the pipeline.)
C8_CancelInBackoffAborts ==
    /\ (cancelAt = "backoff") =>
         /\ pc["start"] \in {"backoff", "returned"}
         /\ lateProbes = 0
         /\ ~probeOK
         /\ NeverRunning
         /\ StartReturned => startRes = "err_ctx"
    /\ (cancelAt = "probe" /\ ~probeOK) =>
         /\ pc["start"] \in {"probe", "backoff", "returned"}
         /\ lateProbes = 0
         /\ NeverRunning
         /\ StartReturned => startRes \in {"err_ctx", "err_api"}

\* The context was cancelled in the first backoff wait and Start returned
\* the context's error with seven attempts unused.
C8_Witness ==
    cancelAt = "backoff" /\ StartReturned /\ startRes = "err_ctx" /\ n = 0

Stopped == StartReturned /\ startRes = "nil" /\ loopPc = "exited" /\ wg = 0

\* C9: once the service is Running (Start blocked in wg.Wait()), cancelling
\* the context leads to Stopped: the goroutine exits and Start returns. The
\* scheduler starts no tick while the context is cancelled.
C9_CancelLeadsToStopped ==
    /\ (cancelled /\ pc["start"] = "wait") ~> Stopped
    /\ [][cancelled => ~(loopPc = "repeat" /\ loopPc' = "meta")]_vars

\* The context was cancelled while Start was blocked in wg.Wait(), and the
\* service stopped.
C9_Witness == cancelAt = "wait" /\ Stopped

\* C10 as stated: Start returns nil only after the context was cancelled.
C10_NilOnlyAfterCancel == (StartReturned /\ startRes = "nil") => cancelled

\* C11 as stated: whenever createAnsibleFiles has returned nil to a caller
\* that runs alone, the folder holds exactly the template's tree, whatever
\* was there before the call (a second call included).
C11_ProvisionMirrorsTemplate ==
    \A t \in Threads : pc[t] = AfterProvision(t) => ws = TemplateTree

\* The state of the startup state machine.
StartState ==
    CASE pc["start"] = "idle" -> "NotCalled"
      [] pc["start"] \in {"cf_rm", "cf_mkdir", "cf_walk"} -> "Initializing"
      [] pc["start"] \in {"retry", "probe", "backoff", "spawn"} -> "AwaitingAPI"
      [] pc["start"] = "wait" -> "Running"
      [] pc["start"] = "returned" /\ startRes = "nil" -> "Stopped"
      [] OTHER -> "Failed"

\* A transition of the startup state machine: a step of Start's caller, the
\* end of the goroutine Start waits for, or cancellation.
StartStep ==
    \/ pc'["start"] # pc["start"]
    \/ widx'["start"] # widx["start"]
    \/ n' # n
    \/ wg' # wg
    \/ cancelled' # cancelled

\* C12: readiness is independent of the startup state machine. The step
\* with which a BuildCatalog call returns nil sets the flag, and it can be
\* taken in whatever state Start is (a call at its meta run whose playbook is
\* there can succeed); no transition of the startup state machine changes
\* the flag.
C12_ReadinessOrthogonalToStart ==
    /\ [][\A b \in Callers : BuildSucceeds(b) => IsCatalogReady']_vars
    /\ [](\A b \in Callers :
            (pc[b] = "run" /\ MetaRunCanSucceed)
              => ENABLED BuildCatalog_RunSucceeds(b))
    /\ [][StartStep => ready' = ready]_vars

\* A BuildCatalog call succeeded and the service is ready although Start
\* returned with the probe's fatal error.
C12_Witness == IsCatalogReady /\ buildRes = "nil" /\ StartState = "Failed"

\* A step of the goroutine: of the scheduler or of a tick.
TickStep == loopPc' # loopPc \/ tickLog' # tickLog

\* C13: the flag is false after construction and stays false until a
\* BuildCatalog call has been made; the only step that changes it is the one
\* with which a BuildCatalog call returns nil; no step of a tick changes it.
C13_OnlyBuildCatalogWritesReady ==
    /\ ~IsCatalogReady
    /\ [](ready => builds >= 1)
    /\ [][ready' # ready => \E b \in Callers : BuildSucceeds(b)]_vars
    /\ [][TickStep => ready' = ready]_vars

\* A tick ran all five stages with success (meta run and check run
\* included) and the service is still not ready.
C13_Witness ==
    /\ ~IsCatalogReady
    /\ Len(tickLog) = 5
    /\ \A i \in 1..5 : tickLog[i][2] = TRUE
    /\ loopPc = "repeat"

\* The stages of a tick in the order of the closure's statements.
Stages == <<"meta", "fetch", "write", "bind", "check">>

\* The goroutine is inside a tick, about to invoke a stage.
InTick == \E i \in 1..Len(Stages) : loopPc = Stages[i]

\* C14: the stages of a tick are invoked in the order meta run, fetch,
\* inventory write, bind, check run, with short-circuit: the i-th stage
\* invoked is the i-th of the order, every stage before the last invoked one
\* succeeded, and the stage the tick is about to invoke is the one after the
\* stages invoked so far; so the check run is invoked only after the four
\* stages before it succeeded in this tick.
C14_StagesInOrder ==
    /\ Len(tickLog) <= Len(Stages)
    /\ \A i \in 1..Len(tickLog) :
         /\ tickLog[i][1] = Stages[i]
         /\ i < Len(tickLog) => tickLog[i][2] = TRUE
    /\ InTick =>
         /\ Len(tickLog) < Len(Stages)
         /\ loopPc = Stages[Len(tickLog) + 1]
         /\ \A i \in 1..Len(tickLog) : tickLog[i][2] = TRUE

\* A tick is about to invoke the check runner: its meta run, fetch,
\* inventory write and bind were invoked before, in this order, with success.
C14_Witness ==
    /\ loopPc = "check"
    /\ tickLog = << <<"meta", TRUE>>, <<"fetch", TRUE>>,
                    <<"write", TRUE>>, <<"bind", TRUE>> >>

\* Caller b is inside a BuildCatalog call (provisioning or meta run).
InBuild(b) == pc[b] # "idle"

\* No BuildCatalog call is in progress while a tick is.
NoBuildDuringTick == ~(InTick /\ \E b \in Callers : InBuild(b))

\* No two BuildCatalog calls are in progress together.
NoTwoBuilds == ~(InBuild("b1") /\ InBuild("b2"))

\* C15 as stated: provisioning and playbook invocations exclude each other:
\* no BuildCatalog call is in progress while a tick is between the start of
\* its meta stage and the end of its check stage, and no two BuildCatalog
\* calls are in progress at the same time.
C15_MutualExclusion == NoBuildDuringTick /\ NoTwoBuilds

\* C16 as stated: whenever a tick is at the invocation of the check runner,
\* the inventory file exists and holds the rendering of the topology this
\* tick fetched, and the check playbook and the engine config are in the
\* workspace.
C16_CheckSeesConsistentState ==
    loopPc = "check" =>
      /\ ws[AnsibleHostFile] = Render(content)
      /\ ws[AnsibleMain] # "none"
      /\ ws[AnsibleConfigFile] # "none"

\* The step with which the scheduler starts a tick.
TickStarts ==
    /\ loopPc' = "meta"
    /\ tickLog' = <<>>
    /\ ~(loopPc = "meta" /\ tickLog = <<>>)

Forward ==
    {<<"NotCalled", "Initializing">>,
     <<"Initializing", "AwaitingAPI">>, <<"Initializing", "Failed">>,
     <<"AwaitingAPI", "Running">>, <<"AwaitingAPI", "Failed">>,
     <<"Running", "Stopped">>}

\* The state of Start after the step.
StartStateNext ==
    CASE pc'["start"] = "idle" -> "NotCalled"
      [] pc'["start"] \in {"cf_rm", "cf_mkdir", "cf_walk"} -> "Initializing"
      [] pc'["start"] \in {"retry", "probe", "backoff", "spawn"} -> "AwaitingAPI"
      [] pc'["start"] = "wait" -> "Running"
      [] pc'["start"] = "returned" /\ startRes' = "nil" -> "Stopped"
      [] OTHER -> "Failed"

\* The steps of createAnsibleFiles in their order.
ProvisionRank(p) ==
    CASE p = "cf_rm" -> 1 [] p = "cf_mkdir" -> 2 [] p = "cf_walk" -> 3
      [] OTHER -> 0

\* C18: Start goes through Initializing, AwaitingAPI, Running, Stopped only
\* forward. No probe attempt starts before createAnsibleFiles returned nil;
\* the goroutine exists, a tick runs and the topology is fetched only after
\* a probe attempt succeeded and the client was stored; createAnsibleFiles
\* is run once by Start: inside Initializing its steps only advance, and
\* Initializing is entered from NotCalled alone.
C18_StartOnlyForward ==
    /\ [][StartStateNext # StartState
            => <<StartState, StartStateNext>> \in Forward]_vars
    /\ [][(StartState = "Initializing" /\ StartStateNext = "Initializing")
            => /\ ProvisionRank(pc'["start"]) >= ProvisionRank(pc["start"])
               /\ widx'["start"] >= widx["start"]]_vars
    /\ [](StartState \in {"NotCalled", "Initializing"}
            => (~probed /\ ~probeOK /\ NeverRunning))
    /\ []((loopPc # "none" \/ tickLog # <<>>)
            => (probeOK /\ trentoApi = "client"
                  /\ StartState \in {"Running", "Stopped"}))
    /\ [](trentoApi = "client" => probeOK)

\* Start went through all four states: it provisioned, probed with success,
\* ran ticks (one fetched the topology) and stopped on cancellation.
C18_Witness ==
    /\ StartState = "Stopped"
    /\ cancelled
    /\ probeOK
    /\ Len(tickLog) >= 2
    /\ tickLog[2] = <<"fetch", TRUE>>

\* The steps of one BuildCatalog call in their order.
BuildRank(p) ==
    CASE p = "cf_rm" -> 1 [] p = "cf_mkdir" -> 2 [] p = "cf_walk" -> 3
      [] p = "newMeta" -> 4 [] p = "run" -> 5 [] OTHER -> 0

\* C19: no stage is retried. A tick invokes none of its five stages twice,
\* and the step after a stage never goes back to a stage already invoked.
\* Inside one BuildCatalog call the steps only advance (provisioning, runner,
\* meta run), the walk does not start over, and after the one meta run the
\* call returns.
C19_NoStageRetried ==
    /\ [](\A i, j \in 1..Len(tickLog) :
            tickLog[i][1] = tickLog[j][1] => i = j)
    /\ [][(Len(tickLog') = Len(tickLog) + 1 /\ InTick')
            => \A i \in 1..Len(tickLog') : tickLog'[i][1] # loopPc']_vars
    /\ [][\A b \in Callers :
            /\ (InBuild(b) /\ InBuild(b)')
                 => /\ BuildRank(pc'[b]) >= BuildRank(pc[b])
                    /\ (pc[b] = "cf_walk" /\ pc'[b] = "cf_walk")
                         => widx'[b] >= widx[b]
            /\ (pc[b] = "run" /\ pc'[b] # "run") => pc'[b] = "idle"]_vars

\* A tick ended at its failed fetch and a BuildCatalog call returned the
\* error of its meta run: neither was tried again.
C19_Witness ==
    /\ tickLog = << <<"meta", TRUE>>, <<"fetch", FALSE>> >>
    /\ loopPc = "repeat"
    /\ buildRes = "err_meta"
    /\ \A b \in Callers : ~InBuild(b)

\* C20 as stated: whenever the service is ready and no BuildCatalog call is
\* in progress, the catalog artifact a successful meta run wrote is in the
\* workspace.
C20_ReadyImpliesCatalog ==
    (IsCatalogReady /\ \A b \in Callers : ~InBuild(b))
      => ws[CatalogDestinationFile] = "catalog"

====
